---- MODULE Spec2Model ----
(***************************************************************************)
(* Validation of the authorizer chain configuration.                       *)
(*                                                                         *)
(* ValidateAuthorizationConfiguration walks the chain entry by entry and   *)
(* accumulates field errors; ValidateWebhookConfiguration validates one    *)
(* webhook.  The walk is a state machine: one step sets the call up, one   *)
(* step runs one iteration of the loop, one step returns.                  *)
(*                                                                         *)
(* Conventions.  A Go string that the code inspects character by character *)
(* (a file path, a match-condition expression) is a sequence of tokens and *)
(* String() is its concatenation; every other Go string is a TLA+ string.  *)
(* A Go pointer is a sequence of length 0 (nil) or 1.  A duration is a     *)
(* whole number of seconds.  Go indices start at 0, sequence indices at 1. *)
(***************************************************************************)
EXTENDS Integers, Sequences, FiniteSets, TLC

VARIABLES
    c,                    \* the AuthorizationConfiguration being validated
    knownTypes,           \* argument knownTypes
    repeatableTypes,      \* argument repeatableTypes
    pc,                   \* position in ValidateAuthorizationConfiguration
    i,                    \* index of the loop over c.Authorizers (1-based)
    webhooks,             \* local: number of entries of type Webhook
    seenAuthorizerTypes,  \* local: types met so far
    seenWebhookNames,     \* local: webhook names met so far
    allErrs,              \* local: the error list being accumulated
    o,                    \* the BuiltInAuthorizationOptions of the caller
    gate,                 \* feature gate StructuredAuthorizationConfig
    opc,                  \* position of the caller
    allErrors,            \* result of o.Validate(): nil until it is called
    config,               \* result of o.ToAuthorizationConfig(): nil until it is called
    validated,            \* the configurations the validator has returned on
    loads,                \* number of calls of the file loader
    call,                 \* which call of the validator a direct caller is at
    firstErrs             \* what the direct caller's first call returned

vars == <<c, knownTypes, repeatableTypes, pc, i, webhooks,
          seenAuthorizerTypes, seenWebhookNames, allErrs,
          o, gate, opc, allErrors, config, validated, loads, call, firstErrs>>

\* The state of the caller, which no step of the validator touches.
callerVars == <<o, gate, opc, allErrors, config, validated, loads, call, firstErrs>>

(***************************************************************************)
(* Bounds of the explored inputs.                                          *)
(***************************************************************************)
MaxAuthorizers == 2   \* longest chain of the chain-level inputs
MaxDefects == 2       \* most fields of a webhook that differ from a well-formed one

(***************************************************************************)
(* Basic values.                                                           *)
(***************************************************************************)
Second == 1
Minute == 60

TypeWebhook == "Webhook"

Nil == <<>>
Ptr(v) == <<v>>
Deref(p) == p[1]

RECURSIVE String(_)
String(tokens) ==
    IF tokens = <<>> THEN "" ELSE Head(tokens) \o String(Tail(tokens))

\* time.Duration.String for whole seconds: "5s", "1m0s", "1h0m0s", "-1s", "0s".
DurationString(d) ==
    LET a == IF d < 0 THEN -d ELSE d
        h == a \div (60 * Minute)
        m == (a % (60 * Minute)) \div Minute
        s == a % Minute
        body == IF h > 0
                THEN ToString(h) \o "h" \o ToString(m) \o "m" \o ToString(s) \o "s"
                ELSE IF m > 0
                     THEN ToString(m) \o "m" \o ToString(s) \o "s"
                     ELSE ToString(s) \o "s"
    IN  IF d = 0 THEN "0s" ELSE IF d < 0 THEN "-" \o body ELSE body

(***************************************************************************)
(* field.Path and field.Error.                                             *)
(***************************************************************************)
RootPath == <<>>
Child(fldPath, name) == Append(fldPath, name)
Index(fldPath, n) == Append(fldPath, "[" \o ToString(n) \o "]")

Required(fld, detail) ==
    [Type |-> "Required", Field |-> fld, BadValue |-> "",
     Detail |-> detail, Supported |-> <<>>]
Invalid(fld, value, detail) ==
    [Type |-> "Invalid", Field |-> fld, BadValue |-> value,
     Detail |-> detail, Supported |-> <<>>]
NotSupported(fld, value, validValues) ==
    [Type |-> "NotSupported", Field |-> fld, BadValue |-> value,
     Detail |-> "supported values", Supported |-> validValues]
Duplicate(fld, value) ==
    [Type |-> "Duplicate", Field |-> fld, BadValue |-> value,
     Detail |-> "", Supported |-> <<>>]

\* sets.String.List: the members in ascending order.
SortedTypes ==
    <<"ABAC", "AlwaysAllow", "AlwaysDeny", "Foo", "Node", "RBAC", "Webhook">>
List(s) == SelectSeq(SortedTypes, LAMBDA t : t \in s)

(***************************************************************************)
(* The file system seen by os.Stat.                                        *)
(***************************************************************************)
Lstat(name) ==
    CASE name = "/tmp/kubeconfig" -> [kind |-> "regular", target |-> ""]
      [] name = "/tmp"            -> [kind |-> "dir", target |-> ""]
      [] name = "/tmp/link"       -> [kind |-> "symlink", target |-> "/tmp/kubeconfig"]
      [] OTHER                    -> [kind |-> "missing", target |-> ""]

\* os.Stat follows a symbolic link and describes the file it points to.
Stat(name) ==
    LET l == Lstat(name)
    IN  IF l.kind = "symlink" THEN Lstat(l.target) ELSE l

IsAbs(path) == Len(path) > 0 /\ path[1] = "/"

IsSpace(ch) == ch \in {" ", "\t", "\n"}
RECURSIVE TrimLeft(_)
TrimLeft(s) ==
    IF s # <<>> /\ IsSpace(Head(s)) THEN TrimLeft(Tail(s)) ELSE s
RECURSIVE TrimRight(_)
TrimRight(s) ==
    IF s # <<>> /\ IsSpace(s[Len(s)]) THEN TrimRight(SubSeq(s, 1, Len(s) - 1)) ELSE s
TrimSpace(s) == TrimRight(TrimLeft(s))

(***************************************************************************)
(* ValidateWebhookConfiguration, one operator per field it validates.      *)
(* Each takes the path handed to the function and the webhook w.           *)
(***************************************************************************)

\* A plausible slip: the duplicate test made before the emptiness test.
NameErrsDuplicateFirst(fldPath, w, requireName, seenNames) ==
    IF w.Name \in seenNames
    THEN <<Duplicate(Child(fldPath, "name"), w.Name)>>
    ELSE IF Len(w.Name) = 0 /\ requireName
         THEN <<Required(Child(fldPath, "name"), "")>>
         ELSE <<>>

\* A plausible slip: the duplicate test left out.
NameErrsNoDuplicate(fldPath, w, requireName, seenNames) ==
    IF Len(w.Name) = 0 /\ requireName
    THEN <<Required(Child(fldPath, "name"), "")>>
    ELSE <<>>

NameErrs(fldPath, w, requireName, seenNames) ==
    IF Len(w.Name) = 0
    THEN IF requireName
         THEN <<Required(Child(fldPath, "name"), "")>>
         ELSE <<>>
    ELSE IF w.Name \in seenNames
         THEN <<Duplicate(Child(fldPath, "name"), w.Name)>>
         ELSE <<>>

\* A plausible slip: the comparison inverted.
AuthorizedTTLErrsInverted(fldPath, w) ==
    IF w.AuthorizedTTL # 0
    THEN <<Required(Child(fldPath, "authorizedTTL"), "")>>
    ELSE <<>>

AuthorizedTTLErrs(fldPath, w) ==
    IF w.AuthorizedTTL = 0
    THEN <<Required(Child(fldPath, "authorizedTTL"), "")>>
    ELSE <<>>

\* A plausible slip: the block copied from authorizedTTL with the test left as it was.
UnauthorizedTTLErrsCopied(fldPath, w) ==
    IF w.AuthorizedTTL = 0
    THEN <<Required(Child(fldPath, "unauthorizedTTL"), "")>>
    ELSE <<>>

UnauthorizedTTLErrs(fldPath, w) ==
    IF w.UnauthorizedTTL = 0
    THEN <<Required(Child(fldPath, "unauthorizedTTL"), "")>>
    ELSE <<>>

TimeoutErrs(fldPath, w) ==
    IF w.Timeout = 0
    THEN <<Required(Child(fldPath, "timeout"), "")>>
    ELSE IF w.Timeout > 30 * Minute
         THEN <<Invalid(Child(fldPath, "timeout"), DurationString(w.Timeout),
                        "must be <= 30s")>>
         ELSE <<>>

SubjectAccessReviewVersionErrs(fldPath, w) ==
    CASE w.SubjectAccessReviewVersion = "" ->
            <<Required(Child(fldPath, "subjectAccessReviewVersion"), "")>>
      [] w.SubjectAccessReviewVersion \in {"v1", "v1beta1"} -> <<>>
      [] OTHER ->
            <<NotSupported(Child(fldPath, "subjectAccessReviewVersion"),
                           w.SubjectAccessReviewVersion, <<"v1", "v1beta1">>)>>

\* A plausible slip: the value of another field reported as the bad value.
FailurePolicyErrsOtherValue(fldPath, w) ==
    CASE w.FailurePolicy = "" ->
            <<Required(Child(fldPath, "failurePolicy"), "")>>
      [] w.FailurePolicy \in {"NoOpinion", "Deny"} -> <<>>
      [] OTHER ->
            <<NotSupported(Child(fldPath, "failurePolicy"), w.SubjectAccessReviewVersion,
                           <<"NoOpinion", "Deny">>)>>

FailurePolicyErrs(fldPath, w) ==
    CASE w.FailurePolicy = "" ->
            <<Required(Child(fldPath, "failurePolicy"), "")>>
      [] w.FailurePolicy \in {"NoOpinion", "Deny"} -> <<>>
      [] OTHER ->
            <<NotSupported(Child(fldPath, "failurePolicy"), w.FailurePolicy,
                           <<"NoOpinion", "Deny">>)>>

\* A plausible slip: the absolute-path test left out.
KubeConfigFileErrsNoIsAbs(fldPath, w) ==
    LET fld == Child(Child(fldPath, "connectionInfo"), "kubeConfigFile")
        p == w.ConnectionInfo.KubeConfigFile
    IN  IF p = Nil \/ Deref(p) = <<>>
        THEN <<Required(fld, "")>>
        ELSE IF Stat(String(Deref(p))).kind = "missing"
        THEN <<Invalid(fld, String(Deref(p)), "error loading file")>>
        ELSE IF Stat(String(Deref(p))).kind # "regular"
        THEN <<Invalid(fld, String(Deref(p)), "must be a regular file")>>
        ELSE <<>>

KubeConfigFileErrs(fldPath, w) ==
    LET fld == Child(Child(fldPath, "connectionInfo"), "kubeConfigFile")
        p == w.ConnectionInfo.KubeConfigFile
    IN  IF p = Nil \/ Deref(p) = <<>>
        THEN <<Required(fld, "")>>
        ELSE IF ~IsAbs(Deref(p))
        THEN <<Invalid(fld, String(Deref(p)), "must be an absolute path")>>
        ELSE IF Stat(String(Deref(p))).kind = "missing"
        THEN <<Invalid(fld, String(Deref(p)), "error loading file")>>
        ELSE IF Stat(String(Deref(p))).kind # "regular"
        THEN <<Invalid(fld, String(Deref(p)), "must be a regular file")>>
        ELSE <<>>

ConnectionInfoErrs(fldPath, w) ==
    CASE w.ConnectionInfo.Type = "" ->
            <<Required(Child(Child(fldPath, "connectionInfo"), "type"), "")>>
      [] w.ConnectionInfo.Type = "InClusterConfig" ->
            IF w.ConnectionInfo.KubeConfigFile # Nil
            THEN <<Invalid(Child(Child(fldPath, "connectionInfo"), "kubeConfigFile"),
                           String(Deref(w.ConnectionInfo.KubeConfigFile)),
                           "can only be set when type=KubeConfigFile")>>
            ELSE <<>>
      [] w.ConnectionInfo.Type = "KubeConfigFile" -> KubeConfigFileErrs(fldPath, w)
      [] OTHER ->
            <<NotSupported(Child(Child(fldPath, "connectionInfo"), "type"),
                           w.FailurePolicy, <<"InClusterConfig", "KubeConfigFile">>)>>

\* ValidateWebhookMatchCondition: the expression is not type-checked.
ValidateWebhookMatchCondition(fldPath, sarVersion, expression) == <<>>

\* A plausible slip: the expression tested without trimming it.
MatchConditionErrsNoTrim(fldPath, w, j) ==
    LET fld == Child(Index(Child(fldPath, "matchConditions"), j - 1), "expression")
    IN  IF Len(w.MatchConditions[j].Expression) = 0
        THEN <<Required(fld, "")>>
        ELSE ValidateWebhookMatchCondition(fld, w.SubjectAccessReviewVersion,
                                           w.MatchConditions[j].Expression)

MatchConditionErrs(fldPath, w, j) ==
    LET fld == Child(Index(Child(fldPath, "matchConditions"), j - 1), "expression")
    IN  IF Len(TrimSpace(w.MatchConditions[j].Expression)) = 0
        THEN <<Required(fld, "")>>
        ELSE ValidateWebhookMatchCondition(fld, w.SubjectAccessReviewVersion,
                                           w.MatchConditions[j].Expression)

RECURSIVE MatchConditionsErrs(_, _, _)
MatchConditionsErrs(fldPath, w, n) ==
    IF n = 0 THEN <<>>
    ELSE MatchConditionsErrs(fldPath, w, n - 1) \o MatchConditionErrs(fldPath, w, n)

\* A plausible slip: the function returns at the first error it finds.
ValidateWebhookConfigurationFirstError(fldPath, w, requireName, seenNames) ==
    LET errs == NameErrs(fldPath, w, requireName, seenNames)
                \o AuthorizedTTLErrs(fldPath, w)
                \o UnauthorizedTTLErrs(fldPath, w)
                \o TimeoutErrs(fldPath, w)
                \o SubjectAccessReviewVersionErrs(fldPath, w)
                \o FailurePolicyErrs(fldPath, w)
                \o ConnectionInfoErrs(fldPath, w)
                \o MatchConditionsErrs(fldPath, w, Len(w.MatchConditions))
    IN  IF errs = <<>> THEN <<>> ELSE <<errs[1]>>

ValidateWebhookConfiguration(fldPath, w, requireName, seenNames) ==
    NameErrs(fldPath, w, requireName, seenNames)
    \o AuthorizedTTLErrs(fldPath, w)
    \o UnauthorizedTTLErrs(fldPath, w)
    \o TimeoutErrs(fldPath, w)
    \o SubjectAccessReviewVersionErrs(fldPath, w)
    \o FailurePolicyErrs(fldPath, w)
    \o ConnectionInfoErrs(fldPath, w)
    \o MatchConditionsErrs(fldPath, w, Len(w.MatchConditions))

(***************************************************************************)
(* ValidateAuthorizationConfiguration.                                     *)
(***************************************************************************)
CountWebhooks(authorizers) ==
    Cardinality({k \in DOMAIN authorizers : authorizers[k].Type = TypeWebhook})

\* A plausible slip: the repeatable test inverted.
IsDuplicateTypeInverted(aType, seenTypes, repeatable) ==
    aType \in seenTypes /\ aType \in repeatable

IsDuplicateType(aType, seenTypes, repeatable) ==
    aType \in seenTypes /\ aType \notin repeatable

RequireName(n) == n > 0

\* The entry the loop is at, and the path of that entry.
a == c.Authorizers[i]
entryPath == Index(Child(RootPath, "authorizers"), i - 1)
InLoop == pc = "loop" /\ i <= Len(c.Authorizers)

\* A plausible slip: the seen names kept between calls, as a package-level
\* variable would be.
BeginKeepsSeenNames ==
    /\ pc = "start"
    /\ allErrs' = <<>>
    /\ webhooks' = CountWebhooks(c.Authorizers)
    /\ seenAuthorizerTypes' = {}
    /\ i' = 1
    /\ pc' = "loop"
    /\ UNCHANGED <<c, knownTypes, repeatableTypes, seenWebhookNames>>
    /\ UNCHANGED callerVars

Begin ==
    /\ pc = "start"
    /\ allErrs' = <<>>
    /\ webhooks' = CountWebhooks(c.Authorizers)
    /\ seenAuthorizerTypes' = {}
    /\ seenWebhookNames' = {}
    /\ i' = 1
    /\ pc' = "loop"
    /\ UNCHANGED <<c, knownTypes, repeatableTypes>>
    /\ UNCHANGED callerVars

\* A plausible slip: the `continue` left out, so the next test also runs.
RequireTypeFallThrough ==
    /\ InLoop
    /\ a.Type = ""
    /\ allErrs' = allErrs \o
           <<Required(Child(entryPath, "type"), "")>> \o
           (IF a.Type \notin knownTypes
            THEN <<NotSupported(Child(entryPath, "type"), a.Type, List(knownTypes))>>
            ELSE <<>>)
    /\ i' = i + 1
    /\ UNCHANGED <<c, knownTypes, repeatableTypes, pc, webhooks,
                   seenAuthorizerTypes, seenWebhookNames>>
    /\ UNCHANGED callerVars

RequireType ==
    /\ InLoop
    /\ a.Type = ""
    /\ allErrs' = Append(allErrs, Required(Child(entryPath, "type"), ""))
    /\ i' = i + 1
    /\ UNCHANGED <<c, knownTypes, repeatableTypes, pc, webhooks,
                   seenAuthorizerTypes, seenWebhookNames>>
    /\ UNCHANGED callerVars

\* A plausible slip: the wrong set listed as the supported values.
RejectUnknownTypeListsRepeatable ==
    /\ InLoop
    /\ a.Type # ""
    /\ a.Type \notin knownTypes
    /\ allErrs' = Append(allErrs,
                         NotSupported(Child(entryPath, "type"), a.Type, List(repeatableTypes)))
    /\ i' = i + 1
    /\ UNCHANGED <<c, knownTypes, repeatableTypes, pc, webhooks,
                   seenAuthorizerTypes, seenWebhookNames>>
    /\ UNCHANGED callerVars

RejectUnknownType ==
    /\ InLoop
    /\ a.Type # ""
    /\ a.Type \notin knownTypes
    /\ allErrs' = Append(allErrs,
                         NotSupported(Child(entryPath, "type"), a.Type, List(knownTypes)))
    /\ i' = i + 1
    /\ UNCHANGED <<c, knownTypes, repeatableTypes, pc, webhooks,
                   seenAuthorizerTypes, seenWebhookNames>>
    /\ UNCHANGED callerVars

RejectDuplicateType ==
    /\ InLoop
    /\ a.Type # ""
    /\ a.Type \in knownTypes
    /\ IsDuplicateType(a.Type, seenAuthorizerTypes, repeatableTypes)
    /\ allErrs' = Append(allErrs, Duplicate(Child(entryPath, "type"), a.Type))
    /\ i' = i + 1
    /\ UNCHANGED <<c, knownTypes, repeatableTypes, pc, webhooks,
                   seenAuthorizerTypes, seenWebhookNames>>
    /\ UNCHANGED callerVars

\* The entry passed the three tests on its type.
TypeAdmitted ==
    /\ InLoop
    /\ a.Type # ""
    /\ a.Type \in knownTypes
    /\ ~IsDuplicateType(a.Type, seenAuthorizerTypes, repeatableTypes)

ValidateWebhookEntry ==
    /\ TypeAdmitted
    /\ a.Type = TypeWebhook
    /\ seenAuthorizerTypes' = seenAuthorizerTypes \cup {a.Type}
    /\ IF a.Webhook = Nil
       THEN /\ allErrs' = Append(allErrs, Required(Child(entryPath, "webhook"),
                                                   "required when type=Webhook"))
            /\ UNCHANGED seenWebhookNames
       ELSE /\ allErrs' = allErrs \o ValidateWebhookConfiguration(
                              entryPath, Deref(a.Webhook), RequireName(webhooks),
                              seenWebhookNames)
            /\ seenWebhookNames' = seenWebhookNames \cup {Deref(a.Webhook).Name}
    /\ i' = i + 1
    /\ UNCHANGED <<c, knownTypes, repeatableTypes, pc, webhooks>>
    /\ UNCHANGED callerVars

\* A plausible slip: the nil test inverted.
ValidateOtherEntryInverted ==
    /\ TypeAdmitted
    /\ a.Type # TypeWebhook
    /\ seenAuthorizerTypes' = seenAuthorizerTypes \cup {a.Type}
    /\ allErrs' = IF a.Webhook = Nil
                  THEN Append(allErrs, Invalid(Child(entryPath, "webhook"), "non-null",
                                               "may only be specified when type=Webhook"))
                  ELSE allErrs
    /\ i' = i + 1
    /\ UNCHANGED <<c, knownTypes, repeatableTypes, pc, webhooks, seenWebhookNames>>
    /\ UNCHANGED callerVars

ValidateOtherEntry ==
    /\ TypeAdmitted
    /\ a.Type # TypeWebhook
    /\ seenAuthorizerTypes' = seenAuthorizerTypes \cup {a.Type}
    /\ allErrs' = IF a.Webhook # Nil
                  THEN Append(allErrs, Invalid(Child(entryPath, "webhook"), "non-null",
                                               "may only be specified when type=Webhook"))
                  ELSE allErrs
    /\ i' = i + 1
    /\ UNCHANGED <<c, knownTypes, repeatableTypes, pc, webhooks, seenWebhookNames>>
    /\ UNCHANGED callerVars

Return ==
    /\ pc = "loop"
    /\ i > Len(c.Authorizers)
    /\ pc' = "done"
    /\ UNCHANGED <<c, knownTypes, repeatableTypes, i, webhooks,
                   seenAuthorizerTypes, seenWebhookNames, allErrs>>
    /\ UNCHANGED callerVars

Next ==
    \/ Begin
    \/ RequireType
    \/ RejectUnknownType
    \/ RejectDuplicateType
    \/ ValidateWebhookEntry
    \/ ValidateOtherEntry
    \/ Return

(***************************************************************************)
(* Inputs.                                                                 *)
(***************************************************************************)
\* The bare minimum webhook of the tests, with both TTLs set.
WellFormedWebhook ==
    [Name |-> "default",
     AuthorizedTTL |-> 5 * Minute,
     UnauthorizedTTL |-> 30 * Second,
     Timeout |-> 5 * Second,
     SubjectAccessReviewVersion |-> "v1",
     FailurePolicy |-> "NoOpinion",
     ConnectionInfo |-> [Type |-> "InClusterConfig", KubeConfigFile |-> Nil],
     MatchConditions |-> <<>>]

Named(n) == [WellFormedWebhook EXCEPT !.Name = n]

\* Chain-level inputs: short chains, every choice of the two type sets.
ChainTypeNames == {"RBAC", "Webhook"}
ChainWebhooks ==
    {Nil, Ptr(Named("")), Ptr(Named("default")), Ptr(Named("second-webhook")),
     Ptr([WellFormedWebhook EXCEPT !.Timeout = 0])}
ChainEntries == [Type : ChainTypeNames \cup {""}, Webhook : ChainWebhooks]
Chains == UNION {[1..n -> ChainEntries] : n \in 0..MaxAuthorizers}

NewBuiltInAuthorizationOptions ==
    [Modes |-> <<"AlwaysAllow">>,
     PolicyFile |-> "",
     WebhookConfigFile |-> <<>>,
     WebhookVersion |-> "v1beta1",
     WebhookCacheAuthorizedTTL |-> 5 * Minute,
     WebhookCacheUnauthorizedTTL |-> 30 * Second,
     WebhookRetryBackoff |-> Ptr([Steps |-> 5]),
     AuthorizationConfigurationFile |-> ""]

\* A direct caller, as the table tests are: it hands a chain and the two type
\* sets to the validator and reads the returned list.
Direct ==
    /\ o = NewBuiltInAuthorizationOptions
    /\ gate = FALSE
    /\ opc = "direct"
    /\ allErrors = Nil
    /\ config = Nil
    /\ validated = {}
    /\ loads = 0
    /\ call = 1
    /\ firstErrs = <<>>

Locals ==
    /\ pc = "start"
    /\ i = 0
    /\ webhooks = 0
    /\ seenAuthorizerTypes = {}
    /\ seenWebhookNames = {}
    /\ allErrs = <<>>

Init ==
    /\ c \in {[Authorizers |-> s] : s \in Chains}
    /\ knownTypes \in SUBSET ChainTypeNames
    /\ repeatableTypes \in SUBSET ChainTypeNames
    /\ Locals
    /\ Direct

Spec == Init /\ [][Next]_vars

\* Field-level inputs: one webhook that differs from the well-formed one in at
\* most MaxDefects fields, behind a short prefix, under the API server's modes.
AuthorizationModeChoices == {"ABAC", "AlwaysAllow", "AlwaysDeny", "Node", "RBAC", "Webhook"}
RepeatableAuthorizerTypes == {"Webhook"}

KubeConfigFiles ==
    {Nil, Ptr(<<>>), Ptr(<<"..", "/", "kubeconfig">>), Ptr(<<"/", "tmp", "/", "kubeconfig">>),
     Ptr(<<"/", "tmp">>), Ptr(<<"/", "tmp", "/", "link">>), Ptr(<<"/", "missing">>)}
ConnectionInfos ==
    [Type : {"InClusterConfig"}, KubeConfigFile : {Nil, Ptr(<<>>)}]
    \cup [Type : {"KubeConfigFile"}, KubeConfigFile : KubeConfigFiles]
    \cup [Type : {"", "ExternalClusterConfig"}, KubeConfigFile : {Nil}]
Expressions == {<<>>, <<" ", "\t">>, <<"t">>, <<" ", "t", " ">>}
MatchConditionLists ==
    {<<>>} \cup {<<[Expression |-> e]>> : e \in Expressions}
    \cup {<<[Expression |-> <<"t">>], [Expression |-> <<>>]>>}

FieldValues ==
    [Name : {"", "default", "first", "1-lorem-ipsum-doler-es-mit"},
     AuthorizedTTL : {-1 * Second, 0, 5 * Minute},
     UnauthorizedTTL : {-1 * Second, 0, 30 * Second},
     Timeout : {-1 * Second, 0, 5 * Second, 30 * Second, 31 * Second, 60 * Second,
                30 * Minute, 30 * Minute + Second},
     SubjectAccessReviewVersion : {"", "v1", "v1beta1", "v2beta1"},
     FailurePolicy : {"", "NoOpinion", "Deny", "AlwaysAllow"},
     ConnectionInfo : ConnectionInfos,
     MatchConditions : MatchConditionLists]

Defects(w) ==
    Cardinality({f \in DOMAIN WellFormedWebhook : w[f] # WellFormedWebhook[f]})

Webhooks == {w \in FieldValues : Defects(w) <= MaxDefects}

Plain(t) == [Type |-> t, Webhook |-> Nil]
Prefixes ==
    {<<>>, <<Plain("")>>, <<Plain("Foo")>>, <<Plain("RBAC"), Plain("RBAC")>>,
     <<[Type |-> TypeWebhook, Webhook |-> Ptr(Named("first"))]>>}

WebhookInit ==
    /\ c \in {[Authorizers |-> Append(p, [Type |-> TypeWebhook, Webhook |-> Ptr(w)])] :
                p \in Prefixes, w \in Webhooks}
    /\ knownTypes = AuthorizationModeChoices
    /\ repeatableTypes = RepeatableAuthorizerTypes
    /\ Locals
    /\ Direct

WebhookSpec == WebhookInit /\ [][Next]_vars

(***************************************************************************)
(* A direct caller that validates the same arguments a second time.        *)
(***************************************************************************)
ValidateAgain ==
    /\ opc = "direct"
    /\ pc = "done"
    /\ call = 1
    /\ firstErrs' = allErrs
    /\ call' = 2
    /\ pc' = "start"
    /\ UNCHANGED <<c, knownTypes, repeatableTypes, i, webhooks,
                   seenAuthorizerTypes, seenWebhookNames, allErrs>>
    /\ UNCHANGED <<o, gate, opc, allErrors, config, validated, loads>>

RepeatNext ==
    \/ Begin
    \/ RequireType
    \/ RejectUnknownType
    \/ RejectDuplicateType
    \/ ValidateWebhookEntry
    \/ ValidateOtherEntry
    \/ Return
    \/ ValidateAgain

RepeatSpec == Init /\ [][RepeatNext]_vars

(***************************************************************************)
(* field.Error.Error and field.ErrorList.ToAggregate: the messages that    *)
(* BuiltInAuthorizationOptions.Validate returns.                           *)
(***************************************************************************)
IsIndexElement(name) ==
    name \in {"[" \o ToString(n) \o "]" : n \in 0..(MaxAuthorizers + 1)}

RECURSIVE PathString(_)
PathString(fld) ==
    IF fld = <<>> THEN ""
    ELSE IF Len(fld) = 1 THEN fld[1]
    ELSE PathString(SubSeq(fld, 1, Len(fld) - 1))
         \o (IF IsIndexElement(fld[Len(fld)]) THEN fld[Len(fld)] ELSE "." \o fld[Len(fld)])

Quote(v) == "\"" \o v \o "\""

RECURSIVE JoinQuoted(_)
JoinQuoted(values) ==
    IF values = <<>> THEN ""
    ELSE IF Len(values) = 1 THEN Quote(values[1])
    ELSE Quote(values[1]) \o ", " \o JoinQuoted(Tail(values))

ErrorString(e) ==
    LET body == CASE e.Type = "Required" -> "Required value"
                  [] e.Type = "Invalid" -> "Invalid value: " \o Quote(e.BadValue)
                  [] e.Type = "NotSupported" -> "Unsupported value: " \o Quote(e.BadValue)
                  [] e.Type = "Duplicate" -> "Duplicate value: " \o Quote(e.BadValue)
        detail == IF e.Type = "NotSupported"
                  THEN e.Detail \o ": " \o JoinQuoted(e.Supported)
                  ELSE e.Detail
    IN  PathString(e.Field) \o ": " \o body
        \o (IF detail = "" THEN "" ELSE ": " \o detail)

\* ToAggregate keeps the first error of every message.
RECURSIVE ToAggregate(_)
ToAggregate(list) ==
    IF list = <<>> THEN <<>>
    ELSE LET front == ToAggregate(SubSeq(list, 1, Len(list) - 1))
             msg == ErrorString(list[Len(list)])
         IN  IF msg \in {front[n] : n \in DOMAIN front} THEN front ELSE Append(front, msg)

(***************************************************************************)
(* BuiltInAuthorizationOptions: Validate, ToAuthorizationConfig and        *)
(* buildAuthorizationConfiguration.                                        *)
(***************************************************************************)
DefaultWebhookName == "default"

\* authzconfigloader.LoadFromFile on the configuration files of the model.
LoadFromFile(name) ==
    CASE name = "/etc/authz.yaml" ->
            [config |-> Ptr([Authorizers |->
                                <<Plain("RBAC"),
                                  [Type |-> TypeWebhook, Webhook |-> Ptr(WellFormedWebhook)]>>]),
             err |-> ""]
      [] name = "/etc/defective.yaml" ->
            [config |-> Ptr([Authorizers |->
                                <<[Type |-> TypeWebhook,
                                   Webhook |-> Ptr([WellFormedWebhook EXCEPT !.Timeout = 0])],
                                  Plain("")>>]),
             err |-> ""]
      [] OTHER -> [config |-> Nil, err |-> "no such file or directory"]

\* A plausible slip: the two cache TTLs taken from each other's flag.
LegacyEntrySwappedTTLs(opts, mode) ==
    IF mode = "Webhook"
    THEN [Type |-> TypeWebhook,
          Webhook |-> Ptr([Name |-> DefaultWebhookName,
                           AuthorizedTTL |-> opts.WebhookCacheUnauthorizedTTL,
                           UnauthorizedTTL |-> opts.WebhookCacheAuthorizedTTL,
                           Timeout |-> 30 * Second,
                           SubjectAccessReviewVersion |-> opts.WebhookVersion,
                           FailurePolicy |-> "NoOpinion",
                           ConnectionInfo |-> [Type |-> "KubeConfigFile",
                                               KubeConfigFile |-> Ptr(opts.WebhookConfigFile)],
                           MatchConditions |-> <<>>])]
    ELSE [Type |-> mode, Webhook |-> Nil]

LegacyEntry(opts, mode) ==
    IF mode = "Webhook"
    THEN [Type |-> TypeWebhook,
          Webhook |-> Ptr([Name |-> DefaultWebhookName,
                           AuthorizedTTL |-> opts.WebhookCacheAuthorizedTTL,
                           UnauthorizedTTL |-> opts.WebhookCacheUnauthorizedTTL,
                           Timeout |-> 30 * Second,
                           SubjectAccessReviewVersion |-> opts.WebhookVersion,
                           FailurePolicy |-> "NoOpinion",
                           ConnectionInfo |-> [Type |-> "KubeConfigFile",
                                               KubeConfigFile |-> Ptr(opts.WebhookConfigFile)],
                           MatchConditions |-> <<>>])]
    ELSE [Type |-> mode, Webhook |-> Nil]

buildAuthorizationConfiguration(opts) ==
    [Authorizers |-> [k \in DOMAIN opts.Modes |-> LegacyEntry(opts, opts.Modes[k])]]

\* A plausible slip: the test of the gate inverted.
GateErrsInverted(opts, enabled) ==
    IF enabled /\ opts.AuthorizationConfigurationFile # ""
    THEN <<"StructuredAuthorizationConfig is disabled but --authorization-config is set">>
    ELSE <<>>

\* The tests of Validate on the gate and the configuration file.
GateErrs(opts, enabled) ==
    IF ~enabled /\ opts.AuthorizationConfigurationFile # ""
    THEN <<"StructuredAuthorizationConfig is disabled but --authorization-config is set">>
    ELSE <<>>

\* A plausible slip: the test of the policy file inverted.
RECURSIVE ABACErrsInverted(_, _)
ABACErrsInverted(opts, n) ==
    IF n = 0 THEN <<>>
    ELSE ABACErrsInverted(opts, n - 1)
         \o (IF opts.Modes[n] = "ABAC" /\ opts.PolicyFile # ""
             THEN <<"authorization-mode ABAC's authorization policy file not passed">>
             ELSE <<>>)

RECURSIVE ABACErrs(_, _)
ABACErrs(opts, n) ==
    IF n = 0 THEN <<>>
    ELSE ABACErrs(opts, n - 1)
         \o (IF opts.Modes[n] = "ABAC" /\ opts.PolicyFile = ""
             THEN <<"authorization-mode ABAC's authorization policy file not passed">>
             ELSE <<>>)

\* A plausible slip: zero retry steps let through.
ModeFileErrsStepsNegative(opts) ==
    LET modes == {opts.Modes[k] : k \in DOMAIN opts.Modes}
    IN  ABACErrs(opts, Len(opts.Modes))
        \o (IF opts.PolicyFile # "" /\ "ABAC" \notin modes
            THEN <<"cannot specify --authorization-policy-file without mode ABAC">>
            ELSE <<>>)
        \o (IF opts.WebhookConfigFile # <<>> /\ "Webhook" \notin modes
            THEN <<"cannot specify --authorization-webhook-config-file without mode Webhook">>
            ELSE <<>>)
        \o (IF opts.WebhookRetryBackoff # Nil /\ Deref(opts.WebhookRetryBackoff).Steps < 0
            THEN <<"number of webhook retry attempts must be greater than 0, but is: "
                   \o ToString(Deref(opts.WebhookRetryBackoff).Steps)>>
            ELSE <<>>)

\* The tests of Validate that follow the validation of the chain.
ModeFileErrs(opts) ==
    LET modes == {opts.Modes[k] : k \in DOMAIN opts.Modes}
    IN  ABACErrs(opts, Len(opts.Modes))
        \o (IF opts.PolicyFile # "" /\ "ABAC" \notin modes
            THEN <<"cannot specify --authorization-policy-file without mode ABAC">>
            ELSE <<>>)
        \o (IF opts.WebhookConfigFile # <<>> /\ "Webhook" \notin modes
            THEN <<"cannot specify --authorization-webhook-config-file without mode Webhook">>
            ELSE <<>>)
        \o (IF opts.WebhookRetryBackoff # Nil /\ Deref(opts.WebhookRetryBackoff).Steps <= 0
            THEN <<"number of webhook retry attempts must be greater than 0, but is: "
                   \o ToString(Deref(opts.WebhookRetryBackoff).Steps)>>
            ELSE <<>>)

\* Validate has not been called yet and the caller is between two calls.
MayValidate == opc = "idle" /\ allErrors = Nil

\* Validate hands cfg to ValidateAuthorizationConfiguration.
CallValidator(cfg) ==
    /\ c' = cfg
    /\ knownTypes' = AuthorizationModeChoices
    /\ repeatableTypes' = RepeatableAuthorizerTypes
    /\ pc' = "start"
    /\ opc' = "Validate"
    /\ UNCHANGED <<i, webhooks, seenAuthorizerTypes, seenWebhookNames, allErrs>>

\* Gate on, no file: the chain validator is not called.
ValidateWithoutFile ==
    /\ MayValidate
    /\ gate
    /\ o.AuthorizationConfigurationFile = ""
    /\ allErrors' = Ptr(<<"StructuredAuthorizationConfig is enabled but --authorization-config is not set">>
                        \o ModeFileErrs(o))
    /\ UNCHANGED <<c, knownTypes, repeatableTypes, pc, i, webhooks,
                   seenAuthorizerTypes, seenWebhookNames, allErrs>>
    /\ UNCHANGED <<o, gate, opc, config, validated, loads, call, firstErrs>>

\* Gate on, the file does not load: the error is appended and the nil
\* configuration is handed to the validator, whose first loop reads
\* c.Authorizers of a nil pointer.
ValidateLoadFailure ==
    /\ MayValidate
    /\ gate
    /\ o.AuthorizationConfigurationFile # ""
    /\ LoadFromFile(o.AuthorizationConfigurationFile).err # ""
    /\ loads' = loads + 1
    /\ allErrors' = Ptr(<<"failed to load config from file "
                          \o o.AuthorizationConfigurationFile \o ": "
                          \o LoadFromFile(o.AuthorizationConfigurationFile).err>>)
    /\ opc' = "panic"
    /\ UNCHANGED <<c, knownTypes, repeatableTypes, pc, i, webhooks,
                   seenAuthorizerTypes, seenWebhookNames, allErrs>>
    /\ UNCHANGED <<o, gate, config, validated, call, firstErrs>>

ValidateFile ==
    /\ MayValidate
    /\ gate
    /\ o.AuthorizationConfigurationFile # ""
    /\ LoadFromFile(o.AuthorizationConfigurationFile).err = ""
    /\ loads' = loads + 1
    /\ allErrors' = Ptr(<<>>)
    /\ CallValidator(Deref(LoadFromFile(o.AuthorizationConfigurationFile).config))
    /\ UNCHANGED <<o, gate, config, validated, call, firstErrs>>

ValidateLegacy ==
    /\ MayValidate
    /\ ~gate
    /\ allErrors' = Ptr(GateErrs(o, gate))
    /\ CallValidator(buildAuthorizationConfiguration(o))
    /\ UNCHANGED <<o, gate, config, validated, loads, call, firstErrs>>

\* A plausible slip: the validator's errors not appended.
ValidateReturnWithoutFieldErrs ==
    /\ opc = "Validate"
    /\ pc = "done"
    /\ allErrors' = Ptr(Deref(allErrors) \o ModeFileErrs(o))
    /\ validated' = validated \cup {c}
    /\ opc' = "idle"
    /\ pc' = "idle"
    /\ UNCHANGED <<c, knownTypes, repeatableTypes, i, webhooks,
                   seenAuthorizerTypes, seenWebhookNames, allErrs>>
    /\ UNCHANGED <<o, gate, config, loads, call, firstErrs>>

\* The validator has returned: its errors are appended, then the legacy tests run.
ValidateReturn ==
    /\ opc = "Validate"
    /\ pc = "done"
    /\ allErrors' = Ptr(Deref(allErrors) \o ToAggregate(allErrs) \o ModeFileErrs(o))
    /\ validated' = validated \cup {c}
    /\ opc' = "idle"
    /\ pc' = "idle"
    /\ UNCHANGED <<c, knownTypes, repeatableTypes, i, webhooks,
                   seenAuthorizerTypes, seenWebhookNames, allErrs>>
    /\ UNCHANGED <<o, gate, config, loads, call, firstErrs>>

NoConfig(err) ==
    [PolicyFile |-> "", WebhookRetryBackoff |-> Nil,
     AuthorizationConfiguration |-> Nil, err |-> err]
Config(opts, cfg) ==
    [PolicyFile |-> opts.PolicyFile, WebhookRetryBackoff |-> opts.WebhookRetryBackoff,
     AuthorizationConfiguration |-> Ptr(cfg), err |-> ""]

ToAuthorizationConfig ==
    /\ opc = "idle"
    /\ config = Nil
    /\ IF gate /\ o.AuthorizationConfigurationFile # ""
       THEN /\ loads' = loads + 1
            /\ config' =
                 IF LoadFromFile(o.AuthorizationConfigurationFile).err # ""
                 THEN Ptr(NoConfig("failed to load config from file: "
                                   \o LoadFromFile(o.AuthorizationConfigurationFile).err))
                 ELSE Ptr(Config(o, Deref(LoadFromFile(o.AuthorizationConfigurationFile).config)))
       ELSE /\ UNCHANGED loads
            /\ config' =
                 IF gate
                 THEN Ptr(NoConfig("StructuredAuthorizationConfig is enabled but no configuration file is defined"))
                 ELSE Ptr(Config(o, buildAuthorizationConfiguration(o)))
    /\ UNCHANGED <<c, knownTypes, repeatableTypes, pc, i, webhooks,
                   seenAuthorizerTypes, seenWebhookNames, allErrs>>
    /\ UNCHANGED <<o, gate, opc, allErrors, validated, call, firstErrs>>

OptionsNext ==
    \/ ValidateWithoutFile
    \/ ValidateLoadFailure
    \/ ValidateFile
    \/ ValidateLegacy
    \/ Begin
    \/ RequireType
    \/ RejectUnknownType
    \/ RejectDuplicateType
    \/ ValidateWebhookEntry
    \/ ValidateOtherEntry
    \/ Return
    \/ ValidateReturn
    \/ ToAuthorizationConfig

\* The settings of the flags: short mode lists, the files of the tests.
Modes == {"AlwaysAllow", "AlwaysDeny", "ABAC", "Webhook", "DoesNotExist"}
ModeLists == UNION {[1..n -> Modes] : n \in 0..MaxAuthorizers}
WebhookConfigFiles ==
    {<<>>, <<"/", "tmp", "/", "kubeconfig">>, <<"authz_webhook_config.yaml">>}
AuthorizationConfigurationFiles ==
    {"", "/etc/authz.yaml", "/etc/defective.yaml", "/etc/missing.yaml"}
\* The webhook flags: the defaults, and the values of the flag-parsing test.
WebhookFlags ==
    {[WebhookVersion |-> "v1beta1",
      WebhookCacheAuthorizedTTL |-> 5 * Minute,
      WebhookCacheUnauthorizedTTL |-> 30 * Second],
     [WebhookVersion |-> "v1",
      WebhookCacheAuthorizedTTL |-> 60 * Second,
      WebhookCacheUnauthorizedTTL |-> 30 * Second]}
WebhookRetryBackoffs == {Nil, Ptr([Steps |-> -1]), Ptr([Steps |-> 0]), Ptr([Steps |-> 5])}
Options ==
    {[Modes |-> modes,
      PolicyFile |-> policyFile,
      WebhookConfigFile |-> webhookConfigFile,
      WebhookVersion |-> flags.WebhookVersion,
      WebhookCacheAuthorizedTTL |-> flags.WebhookCacheAuthorizedTTL,
      WebhookCacheUnauthorizedTTL |-> flags.WebhookCacheUnauthorizedTTL,
      WebhookRetryBackoff |-> backoff,
      AuthorizationConfigurationFile |-> file] :
        modes \in ModeLists,
        policyFile \in {"", "example_policy_file.jsonl"},
        webhookConfigFile \in WebhookConfigFiles,
        flags \in WebhookFlags,
        backoff \in WebhookRetryBackoffs,
        file \in AuthorizationConfigurationFiles}

OptionsInit ==
    /\ o \in Options
    /\ gate \in BOOLEAN
    /\ opc = "idle"
    /\ allErrors = Nil
    /\ config = Nil
    /\ validated = {}
    /\ loads = 0
    /\ call = 1
    /\ firstErrs = <<>>
    /\ c = [Authorizers |-> <<>>]
    /\ knownTypes = AuthorizationModeChoices
    /\ repeatableTypes = RepeatableAuthorizerTypes
    /\ pc = "idle"
    /\ i = 0
    /\ webhooks = 0
    /\ seenAuthorizerTypes = {}
    /\ seenWebhookNames = {}
    /\ allErrs = <<>>

OptionsSpec == OptionsInit /\ [][OptionsNext]_vars

(***************************************************************************)
(* Vocabulary of the properties.  These restate the data model's notions   *)
(* on the inputs and the returned list; they do not read the locals.       *)
(***************************************************************************)
Done == pc = "done"
Accepted == Done /\ allErrs = <<>>
NumAuthorizers == Len(c.Authorizers)
Entry(k) == c.Authorizers[k]
Last(s) == s[Len(s)]
PathOfEntry(k) == <<"authorizers", "[" \o ToString(k - 1) \o "]">>

\* The errors whose path lies under authorizers[k-1], in order.
ErrsOfEntry(k) ==
    SelectSeq(allErrs, LAMBDA e : Len(e.Field) > 2 /\ SubSeq(e.Field, 1, 2) = PathOfEntry(k))
\* Those of them whose path ends in the given field name.
ErrsOn(k, name) == SelectSeq(ErrsOfEntry(k), LAMBDA e : Last(e.Field) = name)
OfType(errs, type) == SelectSeq(errs, LAMBDA e : e.Type = type)

\* Entry k is the first of its type, or its type may repeat; and the type is known.
PassesTypeChecks(k) ==
    /\ Entry(k).Type # ""
    /\ Entry(k).Type \in knownTypes
    /\ \/ Entry(k).Type \in repeatableTypes
       \/ \A j \in 1..(k - 1) : Entry(j).Type # Entry(k).Type
ReachesWebhookValidation(k) ==
    /\ PassesTypeChecks(k)
    /\ Entry(k).Type = "Webhook"
    /\ Entry(k).Webhook # Nil
WebhookOf(k) == Entry(k).Webhook[1]
WebhookIsUsual == "Webhook" \in knownTypes /\ "Webhook" \in repeatableTypes

\* The data model's invariants of a webhook, its name aside.
ConnectionInfoWellFormed(ci) ==
    \/ ci.Type = "InClusterConfig" /\ ci.KubeConfigFile = <<>>
    \/ /\ ci.Type = "KubeConfigFile"
       /\ ci.KubeConfigFile # <<>>
       /\ ci.KubeConfigFile[1] # <<>>
       /\ ci.KubeConfigFile[1][1] = "/"
       /\ Lstat(String(ci.KubeConfigFile[1])).kind = "regular"
OtherwiseWellFormed(w) ==
    /\ w.AuthorizedTTL > 0
    /\ w.UnauthorizedTTL > 0
    /\ w.Timeout > 0
    /\ w.Timeout <= 30
    /\ w.SubjectAccessReviewVersion \in {"v1", "v1beta1"}
    /\ w.FailurePolicy \in {"NoOpinion", "Deny"}
    /\ ConnectionInfoWellFormed(w.ConnectionInfo)
    /\ \A j \in DOMAIN w.MatchConditions :
          \E n \in DOMAIN w.MatchConditions[j].Expression :
              w.MatchConditions[j].Expression[n] \notin {" ", "\t", "\n"}
WellFormedWebhookEntry(k) ==
    /\ Entry(k).Type = "Webhook"
    /\ Entry(k).Webhook # <<>>
    /\ OtherwiseWellFormed(WebhookOf(k))

(***************************************************************************)
(* C1.  A chain with zero entries yields exactly one error: Required on    *)
(* `authorizers`, "at least one authorization mode must be defined",       *)
(* whatever knownTypes and repeatableTypes are.                            *)
(***************************************************************************)
C1_EmptyChainRequired ==
    (Done /\ NumAuthorizers = 0) =>
        allErrs = <<[Type |-> "Required", Field |-> <<"authorizers">>, BadValue |-> "",
                     Detail |-> "at least one authorization mode must be defined",
                     Supported |-> <<>>]>>

(***************************************************************************)
(* C2.  For every webhook that reaches webhook validation: timeout 0       *)
(* yields exactly one Required error on timeout; a timeout above 30        *)
(* seconds yields exactly one Invalid error "must be <= 30s"; a timeout in *)
(* (0, 30s] yields no error on timeout.                                    *)
(***************************************************************************)
C2_TimeoutChecked ==
    Done =>
        \A k \in 1..NumAuthorizers :
            ReachesWebhookValidation(k) =>
                LET t == WebhookOf(k).Timeout
                    errs == ErrsOn(k, "timeout")
                IN  /\ (t = 0) =>
                           Len(errs) = 1 /\ errs[1].Type = "Required"
                    /\ (t > 30) =>
                           /\ Len(errs) = 1
                           /\ errs[1].Type = "Invalid"
                           /\ errs[1].Detail = "must be <= 30s"
                    /\ (0 < t /\ t <= 30) => errs = <<>>

(***************************************************************************)
(* C3.  When the chain holds exactly one Webhook-typed entry, well-formed  *)
(* but for its empty name, validation reports no Required error on name.   *)
(***************************************************************************)
C3_SingleWebhookNameOptional ==
    Done =>
        \A k \in 1..NumAuthorizers :
            ( /\ WellFormedWebhookEntry(k)
              /\ WebhookOf(k).Name = ""
              /\ \A j \in 1..NumAuthorizers : Entry(j).Type = "Webhook" => j = k )
            => OfType(ErrsOn(k, "name"), "Required") = <<>>

(***************************************************************************)
(* C4.  Every accepted chain has, for each of its webhooks, timeout > 0,   *)
(* authorizedTTL > 0 and unauthorizedTTL > 0: a negative timeout or TTL is *)
(* never accepted.                                                         *)
(***************************************************************************)
C4_AcceptedDurationsPositive ==
    Accepted =>
        \A k \in 1..NumAuthorizers :
            Entry(k).Webhook # <<>> =>
                /\ WebhookOf(k).Timeout > 0
                /\ WebhookOf(k).AuthorizedTTL > 0
                /\ WebhookOf(k).UnauthorizedTTL > 0

(***************************************************************************)
(* C5.  As stated: for every chain with two entries sharing the same       *)
(* non-empty type that is not in repeatableTypes, validation yields        *)
(* exactly one Duplicate error, on the type field of the second            *)
(* occurrence, and none on the first.                                      *)
(***************************************************************************)
TypesInChain == {Entry(k).Type : k \in 1..NumAuthorizers}
Occurrences(t) == {k \in 1..NumAuthorizers : Entry(k).Type = t}
LaterOf(S) == CHOOSE k \in S : \A j \in S : j <= k
TypeDuplicates(t) ==
    SelectSeq(allErrs, LAMBDA e : /\ e.Type = "Duplicate"
                                  /\ Last(e.Field) = "type"
                                  /\ e.BadValue = t)
OneDuplicateOnSecond(t) ==
    TypeDuplicates(t) =
        <<[Type |-> "Duplicate", Field |-> Append(PathOfEntry(LaterOf(Occurrences(t))), "type"),
           BadValue |-> t, Detail |-> "", Supported |-> <<>>]>>

WebhooksNamed(n) ==
    {k \in 1..NumAuthorizers :
        Entry(k).Type = "Webhook" /\ Entry(k).Webhook # <<>> /\ WebhookOf(k).Name = n}
NameDuplicates ==
    SelectSeq(allErrs, LAMBDA e : e.Type = "Duplicate" /\ Last(e.Field) = "name")

C6_SameNameOneDuplicate ==
    /\ (Done /\ WebhookIsUsual) =>
           \A j, k \in 1..NumAuthorizers :
               ( /\ j < k
                 /\ WellFormedWebhookEntry(j)
                 /\ WellFormedWebhookEntry(k)
                 /\ WebhookOf(j).Name # ""
                 /\ WebhooksNamed(WebhookOf(j).Name) = {j, k} )
               => /\ ErrsOfEntry(j) = <<>>
                  /\ Len(ErrsOfEntry(k)) = 1
                  /\ ErrsOfEntry(k)[1].Type = "Duplicate"
                  /\ Last(ErrsOfEntry(k)[1].Field) = "name"
                  /\ ErrsOfEntry(k)[1].BadValue = WebhookOf(k).Name
                  /\ Len(SelectSeq(NameDuplicates,
                                   LAMBDA e : e.BadValue = WebhookOf(k).Name)) = 1
    /\ Accepted =>
           \A j, k \in 1..NumAuthorizers :
               (j # k /\ Entry(j).Webhook # <<>> /\ Entry(k).Webhook # <<>>)
               => WebhookOf(j).Name # WebhookOf(k).Name

C6_Witness ==
    /\ Done
    /\ WebhookIsUsual
    /\ \E j, k \in 1..NumAuthorizers :
          /\ j < k
          /\ WellFormedWebhookEntry(j)
          /\ WellFormedWebhookEntry(k)
          /\ WebhookOf(j).Name = "default"
          /\ WebhookOf(k).Name = "default"
    /\ Len(NameDuplicates) = 1

(***************************************************************************)
(* C7.  Two well-formed Webhook entries that both have an empty name (in a *)
(* chain validated with Webhook a known repeatable type) each get a        *)
(* Required error on name, and the empty name gets no Duplicate error.     *)
(***************************************************************************)
C7_EmptyNamesBothRequired ==
    (Done /\ WebhookIsUsual) =>
        \A j, k \in 1..NumAuthorizers :
            ( /\ j < k
              /\ WellFormedWebhookEntry(j)
              /\ WellFormedWebhookEntry(k)
              /\ WebhookOf(j).Name = ""
              /\ WebhookOf(k).Name = "" )
            => /\ \A m \in {j, k} :
                      /\ Len(ErrsOfEntry(m)) = 1
                      /\ ErrsOfEntry(m)[1].Type = "Required"
                      /\ Last(ErrsOfEntry(m)[1].Field) = "name"
               /\ SelectSeq(NameDuplicates, LAMBDA e : e.BadValue = "") = <<>>

C7_Witness ==
    /\ Done
    /\ WebhookIsUsual
    /\ NumAuthorizers = 2
    /\ \A k \in 1..2 : WellFormedWebhookEntry(k) /\ WebhookOf(k).Name = ""
    /\ Len(OfType(allErrs, "Required")) = 2

(***************************************************************************)
(* C8.  As stated: a Webhook-typed entry with a null webhook yields        *)
(* exactly one error, Required on `webhook`; a known non-Webhook entry     *)
(* with a non-null webhook yields exactly one error, Invalid on `webhook`; *)
(* hence in every accepted chain an entry has a webhook if and only if its *)
(* type is "Webhook".  (The first part is read with Webhook a known        *)
(* repeatable type, as the API server and the tests have it.)              *)
(***************************************************************************)
RequiredWebhook(k) ==
    <<[Type |-> "Required", Field |-> Append(PathOfEntry(k), "webhook"), BadValue |-> "",
       Detail |-> "required when type=Webhook", Supported |-> <<>>]>>
InvalidWebhook(k) ==
    <<[Type |-> "Invalid", Field |-> Append(PathOfEntry(k), "webhook"),
       BadValue |-> "non-null", Detail |-> "may only be specified when type=Webhook",
       Supported |-> <<>>]>>
AcceptedWebhookIffTyped ==
    Accepted =>
        \A k \in 1..NumAuthorizers : (Entry(k).Webhook # <<>>) <=> (Entry(k).Type = "Webhook")

C8_WebhookPresenceChecked ==
    /\ Done =>
           \A k \in 1..NumAuthorizers :
               /\ (WebhookIsUsual /\ Entry(k).Type = "Webhook" /\ Entry(k).Webhook = <<>>)
                  => ErrsOfEntry(k) = RequiredWebhook(k)
               /\ ( /\ Entry(k).Type \notin {"", "Webhook"}
                    /\ Entry(k).Type \in knownTypes
                    /\ Entry(k).Webhook # <<>> )
                  => ErrsOfEntry(k) = InvalidWebhook(k)
    /\ AcceptedWebhookIffTyped

(***************************************************************************)
(* C8, amended.  The two errors are those of an entry whose type passed    *)
(* the type checks: the type is known and is not a rejected repeat (it is  *)
(* repeatable, or no earlier entry has it).  A repeat of a non-repeatable  *)
(* type yields Duplicate on `type` instead, whatever its webhook is.  The  *)
(* statement on accepted chains stands as it is.                           *)
(***************************************************************************)
C8_WebhookPresenceCheckedOnceAdmitted ==
    /\ Done =>
           \A k \in 1..NumAuthorizers :
               /\ (PassesTypeChecks(k) /\ Entry(k).Type = "Webhook" /\ Entry(k).Webhook = <<>>)
                  => ErrsOfEntry(k) = RequiredWebhook(k)
               /\ (PassesTypeChecks(k) /\ Entry(k).Type # "Webhook" /\ Entry(k).Webhook # <<>>)
                  => ErrsOfEntry(k) = InvalidWebhook(k)
    /\ AcceptedWebhookIffTyped

C8_Witness ==
    /\ Done
    /\ \E j, k \in 1..NumAuthorizers :
          /\ PassesTypeChecks(j) /\ Entry(j).Type = "Webhook" /\ Entry(j).Webhook = <<>>
          /\ PassesTypeChecks(k) /\ Entry(k).Type # "Webhook" /\ Entry(k).Webhook # <<>>
          /\ OfType(ErrsOfEntry(j), "Required") # <<>>
          /\ OfType(ErrsOfEntry(k), "Invalid") # <<>>

(***************************************************************************)
(* C9.  An entry whose type is empty yields exactly one error, Required on *)
(* its `type`, and nothing else is checked on it: its webhook contributes  *)
(* no error, its type is not marked seen, its webhook name is not          *)
(* recorded.                                                               *)
(***************************************************************************)
RequiredType(k) ==
    [Type |-> "Required", Field |-> Append(PathOfEntry(k), "type"), BadValue |-> "",
     Detail |-> "", Supported |-> <<>>]

C9_EmptyTypeOnlyRequired ==
    /\ [](Done => \A k \in 1..NumAuthorizers :
                      Entry(k).Type = "" => ErrsOfEntry(k) = <<RequiredType(k)>>)
    /\ [][ (pc = "loop" /\ i <= NumAuthorizers /\ Entry(i).Type = "")
           => /\ allErrs' = Append(allErrs, RequiredType(i))
              /\ seenAuthorizerTypes' = seenAuthorizerTypes
              /\ seenWebhookNames' = seenWebhookNames ]_vars

C9_Witness ==
    /\ Done
    /\ \E k \in 1..NumAuthorizers :
          /\ Entry(k).Type = ""
          /\ Entry(k).Webhook # <<>>
          /\ WebhookOf(k).Timeout = 0
          /\ ErrsOfEntry(k) = <<RequiredType(k)>>
          /\ WebhookOf(k).Name \notin seenWebhookNames

OneRequiredOn(k, name) ==
    /\ Len(ErrsOn(k, name)) = 1
    /\ ErrsOn(k, name)[1].Type = "Required"

BareMinimumButTTLs(w) ==
    /\ w.Name # ""
    /\ w.Timeout = 5
    /\ w.FailurePolicy = "NoOpinion"
    /\ w.SubjectAccessReviewVersion = "v1"
    /\ w.ConnectionInfo = [Type |-> "InClusterConfig", KubeConfigFile |-> <<>>]
    /\ w.MatchConditions = <<>>
BareMinimumChain ==
    /\ NumAuthorizers \in {1, 2}
    /\ \A k \in 1..NumAuthorizers :
          /\ Entry(k).Type = "Webhook"
          /\ Entry(k).Webhook # <<>>
          /\ BareMinimumButTTLs(WebhookOf(k))
    /\ \A j, k \in 1..NumAuthorizers : j # k => WebhookOf(j).Name # WebhookOf(k).Name
TTLsUnset(w) == w.AuthorizedTTL = 0 /\ w.UnauthorizedTTL = 0
TTLsSet(w) == w.AuthorizedTTL > 0 /\ w.UnauthorizedTTL > 0

Elements(s) == {s[n] : n \in DOMAIN s}
ConnectionInfoErrsOf(k) ==
    SelectSeq(ErrsOfEntry(k), LAMBDA e : "connectionInfo" \in Elements(e.Field))

C13_UnsupportedConnectionType ==
    Done =>
        \A k \in 1..NumAuthorizers :
            ( /\ ReachesWebhookValidation(k)
              /\ WebhookOf(k).ConnectionInfo.Type
                     \notin {"", "InClusterConfig", "KubeConfigFile"} )
            => /\ Len(ConnectionInfoErrsOf(k)) = 1
               /\ ConnectionInfoErrsOf(k)[1].Type = "NotSupported"
               /\ Last(ConnectionInfoErrsOf(k)[1].Field) = "type"
               /\ ConnectionInfoErrsOf(k)[1].BadValue = WebhookOf(k).ConnectionInfo.Type
               /\ ConnectionInfoErrsOf(k)[1].Supported = <<"InClusterConfig", "KubeConfigFile">>

(***************************************************************************)
(* C14.  With connectionInfo.type KubeConfigFile, a kubeConfigFile that is *)
(* a symbolic link (even to an existing regular file), a directory or a    *)
(* device is rejected with an Invalid error; only a path that is itself an *)
(* existing regular file is accepted.                                      *)
(***************************************************************************)
C14_OnlyRegularFileAccepted ==
    Done =>
        \A k \in 1..NumAuthorizers :
            ( /\ ReachesWebhookValidation(k)
              /\ WebhookOf(k).ConnectionInfo.Type = "KubeConfigFile"
              /\ WebhookOf(k).ConnectionInfo.KubeConfigFile # <<>>
              /\ WebhookOf(k).ConnectionInfo.KubeConfigFile[1] # <<>>
              /\ WebhookOf(k).ConnectionInfo.KubeConfigFile[1][1] = "/" )
            => LET kind == Lstat(String(WebhookOf(k).ConnectionInfo.KubeConfigFile[1])).kind
               IN  /\ (kind \in {"symlink", "dir", "device"}) =>
                          /\ Len(ConnectionInfoErrsOf(k)) = 1
                          /\ ConnectionInfoErrsOf(k)[1].Type = "Invalid"
                   /\ (ConnectionInfoErrsOf(k) = <<>>) => kind = "regular"

(***************************************************************************)
(* C15.  connectionInfo yields at most one error per webhook, by the first *)
(* matching case: empty type, Required on connectionInfo.type;             *)
(* InClusterConfig with a non-null kubeConfigFile (even one pointing at    *)
(* the empty string), Invalid; KubeConfigFile with a null or empty         *)
(* kubeConfigFile, Required; a relative path, Invalid "must be an absolute *)
(* path"; an absolute path that does not exist, Invalid; and no error for  *)
(* InClusterConfig with a null kubeConfigFile or KubeConfigFile with an    *)
(* absolute path to an existing regular file.                              *)
(***************************************************************************)
OneConnectionInfoErr(k, type, name) ==
    /\ Len(ConnectionInfoErrsOf(k)) = 1
    /\ ConnectionInfoErrsOf(k)[1].Type = type
    /\ Last(ConnectionInfoErrsOf(k)[1].Field) = name

C15_ConnectionInfoCases ==
    Done =>
        \A k \in 1..NumAuthorizers :
            ReachesWebhookValidation(k) =>
                LET ci == WebhookOf(k).ConnectionInfo
                    set == ci.KubeConfigFile # <<>>
                    path == ci.KubeConfigFile[1]
                    absolute == path # <<>> /\ path[1] = "/"
                IN  /\ Len(ConnectionInfoErrsOf(k)) <= 1
                    /\ (ci.Type = "") => OneConnectionInfoErr(k, "Required", "type")
                    /\ (ci.Type = "InClusterConfig" /\ set) =>
                           OneConnectionInfoErr(k, "Invalid", "kubeConfigFile")
                    /\ (ci.Type = "InClusterConfig" /\ ~set) => ConnectionInfoErrsOf(k) = <<>>
                    /\ (ci.Type = "KubeConfigFile" /\ (~set \/ path = <<>>)) =>
                           OneConnectionInfoErr(k, "Required", "kubeConfigFile")
                    /\ (ci.Type = "KubeConfigFile" /\ set /\ path # <<>> /\ ~absolute) =>
                           /\ OneConnectionInfoErr(k, "Invalid", "kubeConfigFile")
                           /\ ConnectionInfoErrsOf(k)[1].Detail = "must be an absolute path"
                    /\ ( /\ ci.Type = "KubeConfigFile" /\ set /\ absolute
                         /\ Lstat(String(path)).kind = "missing" ) =>
                           OneConnectionInfoErr(k, "Invalid", "kubeConfigFile")
                    /\ ( /\ ci.Type = "KubeConfigFile" /\ set /\ absolute
                         /\ Lstat(String(path)).kind = "regular" ) =>
                           ConnectionInfoErrsOf(k) = <<>>

C15_Witness ==
    /\ Done
    /\ \E k \in 1..NumAuthorizers :
          /\ ReachesWebhookValidation(k)
          /\ WebhookOf(k).ConnectionInfo.Type = "KubeConfigFile"
          /\ WebhookOf(k).ConnectionInfo.KubeConfigFile = <<<<"..", "/", "kubeconfig">>>>
          /\ WebhookOf(k).Timeout = 0
          /\ OneConnectionInfoErr(k, "Invalid", "kubeConfigFile")
          /\ Len(ErrsOfEntry(k)) = 2

(***************************************************************************)
(* C16.  Every error produced while validating the webhook of the entry at *)
(* index i carries a path under that entry's `webhook` field,              *)
(* authorizers[i].webhook.<field>, not directly under authorizers[i].      *)
(***************************************************************************)
C16_WebhookErrorsUnderWebhook ==
    Done =>
        \A k \in 1..NumAuthorizers :
            ReachesWebhookValidation(k) =>
                \A n \in DOMAIN ErrsOfEntry(k) :
                    /\ Len(ErrsOfEntry(k)[n].Field) >= 4
                    /\ ErrsOfEntry(k)[n].Field[3] = "webhook"

(***************************************************************************)
(* C19.  The validator never stops at the first defect.  The returned list *)
(* is the concatenation, in ascending entry index, of the errors of every  *)
(* entry; an entry with an empty or unknown type yields its error whatever *)
(* the other entries yield; and within a webhook each field (name,         *)
(* authorizedTTL, unauthorizedTTL, timeout, subjectAccessReviewVersion,    *)
(* failurePolicy, connectionInfo, each match condition) contributes at     *)
(* most one error, the very error its own rule yields, whatever the other  *)
(* fields yield.                                                           *)
(***************************************************************************)
RECURSIVE ErrsOfEntries(_)
ErrsOfEntries(n) ==
    IF n = 0 THEN <<>> ELSE ErrsOfEntries(n - 1) \o ErrsOfEntry(n)

NamesBefore(k) ==
    {WebhookOf(j).Name : j \in {m \in 1..(k - 1) : ReachesWebhookValidation(m)}}
MatchConditionErrsOf(k, j) ==
    SelectSeq(ErrsOfEntry(k),
              LAMBDA e : /\ Len(e.Field) >= 2
                         /\ "matchConditions" \in Elements(e.Field)
                         /\ e.Field[Len(e.Field) - 1] = "[" \o ToString(j - 1) \o "]")
AtMostOne(errs) == Len(errs) <= 1

FieldsIndependent(k) ==
    LET w == WebhookOf(k)
        p == PathOfEntry(k)
    IN  /\ ErrsOn(k, "name") =
               NameErrs(p, w, RequireName(CountWebhooks(c.Authorizers)), NamesBefore(k))
        /\ ErrsOn(k, "authorizedTTL") = AuthorizedTTLErrs(p, w)
        /\ ErrsOn(k, "unauthorizedTTL") = UnauthorizedTTLErrs(p, w)
        /\ ErrsOn(k, "timeout") = TimeoutErrs(p, w)
        /\ ErrsOn(k, "subjectAccessReviewVersion") = SubjectAccessReviewVersionErrs(p, w)
        /\ ErrsOn(k, "failurePolicy") = FailurePolicyErrs(p, w)
        /\ ConnectionInfoErrsOf(k) = ConnectionInfoErrs(p, w)
        /\ \A j \in DOMAIN w.MatchConditions :
               MatchConditionErrsOf(k, j) = MatchConditionErrs(p, w, j)
        /\ \A name \in {"name", "authorizedTTL", "unauthorizedTTL", "timeout",
                        "subjectAccessReviewVersion", "failurePolicy"} :
               AtMostOne(ErrsOn(k, name))
        /\ AtMostOne(ConnectionInfoErrsOf(k))
        /\ \A j \in DOMAIN w.MatchConditions : AtMostOne(MatchConditionErrsOf(k, j))

C19_EveryDefectReported ==
    Done =>
        /\ allErrs = ErrsOfEntries(NumAuthorizers)
        /\ \A k \in 1..NumAuthorizers :
               /\ (Entry(k).Type = "" \/ Entry(k).Type \notin knownTypes) =>
                      Len(ErrsOfEntry(k)) = 1
               /\ ReachesWebhookValidation(k) => FieldsIndependent(k)

C19_Witness ==
    /\ Done
    /\ NumAuthorizers = 2
    /\ Len(ErrsOfEntry(1)) = 1
    /\ ReachesWebhookValidation(2)
    /\ Len(ErrsOn(2, "timeout")) = 1
    /\ Len(ConnectionInfoErrsOf(2)) = 1
    /\ Len(allErrs) = 3

(***************************************************************************)
(* C20.  Validating the same chain twice with the same knownTypes and      *)
(* repeatableTypes returns identical error lists, and no step of either    *)
(* call changes the chain, knownTypes or repeatableTypes: nothing (seen    *)
(* types, seen webhook names) carries over from one call to the next.      *)
(***************************************************************************)
SecondCallDone == Done /\ call = 2
InputsKept ==
    /\ c' = c
    /\ knownTypes' = knownTypes
    /\ repeatableTypes' = repeatableTypes

C20_ValidationIdempotent ==
    /\ [](SecondCallDone => allErrs = firstErrs)
    /\ [][InputsKept]_vars

C20_Witness ==
    /\ SecondCallDone
    /\ NumAuthorizers = 2
    /\ seenWebhookNames # {}
    /\ seenAuthorizerTypes # {}
    /\ Len(firstErrs) > 0
    /\ allErrs = firstErrs

(***************************************************************************)
(* C17.  Every configuration that ToAuthorizationConfig returns without an *)
(* error, on the file path or the legacy path, has been run through the    *)
(* chain validator before.                                                 *)
(***************************************************************************)
ValidateReturned == opc = "idle" /\ allErrors # Nil
ConfigReturned == config # Nil /\ config[1].err = ""

C17_ReturnedConfigValidated ==
    ConfigReturned => config[1].AuthorizationConfiguration[1] \in validated

(***************************************************************************)
(* C18.  On the legacy path (gate off), Validate with an empty Modes list  *)
(* returns at least one error, among them "authorizers: Required value:    *)
(* at least one authorization mode must be defined".                       *)
(***************************************************************************)
C18_EmptyModesRejected ==
    (ValidateReturned /\ ~gate /\ o.Modes = <<>>) =>
        "authorizers: Required value: at least one authorization mode must be defined"
            \in Elements(allErrors[1])

(***************************************************************************)
(* C23.  For each match condition j of a webhook that reaches webhook      *)
(* validation: an empty or whitespace-only expression yields exactly one   *)
(* Required error at matchConditions[j].expression and a non-blank         *)
(* expression yields none, whatever the subjectAccessReviewVersion is.     *)
(***************************************************************************)
Blank(expression) ==
    \A n \in DOMAIN expression : expression[n] \in {" ", "\t", "\n"}
EndsWith(fld, suffix) ==
    /\ Len(fld) >= Len(suffix)
    /\ SubSeq(fld, Len(fld) - Len(suffix) + 1, Len(fld)) = suffix

C23_BlankExpressionRequired ==
    Done =>
        \A k \in 1..NumAuthorizers :
            ReachesWebhookValidation(k) =>
                \A j \in DOMAIN WebhookOf(k).MatchConditions :
                    LET errs == MatchConditionErrsOf(k, j)
                    IN  IF Blank(WebhookOf(k).MatchConditions[j].Expression)
                        THEN /\ Len(errs) = 1
                             /\ errs[1].Type = "Required"
                             /\ EndsWith(errs[1].Field,
                                         <<"matchConditions", "[" \o ToString(j - 1) \o "]",
                                           "expression">>)
                        ELSE errs = <<>>

C23_Witness ==
    /\ Done
    /\ \E k \in 1..NumAuthorizers :
          /\ ReachesWebhookValidation(k)
          /\ WebhookOf(k).SubjectAccessReviewVersion = "v2beta1"
          /\ WebhookOf(k).MatchConditions = <<[Expression |-> <<" ", "\t">>]>>
          /\ Len(MatchConditionErrsOf(k, 1)) = 1
          /\ Len(ErrsOfEntry(k)) = 2

(***************************************************************************)
(* C24.  A webhook that reaches webhook validation with a name that is not *)
(* an RFC 1035 label, such as "1-lorem-ipsum-doler-es-mit", which starts   *)
(* with a digit, yields an Invalid error on name.                          *)
(***************************************************************************)
NamesNotRFC1035 == {"1-lorem-ipsum-doler-es-mit"}

C24_NameFormatChecked ==
    Done =>
        \A k \in 1..NumAuthorizers :
            (ReachesWebhookValidation(k) /\ WebhookOf(k).Name \in NamesNotRFC1035) =>
                OfType(ErrsOn(k, "name"), "Invalid") # <<>>

(***************************************************************************)
(* C25.  For subjectAccessReviewVersion (allowed v1, v1beta1) and          *)
(* failurePolicy (allowed NoOpinion, Deny) of a webhook that reaches       *)
(* webhook validation: an empty value yields exactly one Required error on *)
(* the field, a non-empty value outside the allowed ones exactly one       *)
(* NotSupported error carrying that value and listing the allowed values,  *)
(* and an allowed value no error on the field.                             *)
(***************************************************************************)
EnumChecked(errs, value, allowed) ==
    /\ (value = "") => Len(errs) = 1 /\ errs[1].Type = "Required"
    /\ (value # "" /\ value \notin Elements(allowed)) =>
           /\ Len(errs) = 1
           /\ errs[1].Type = "NotSupported"
           /\ errs[1].BadValue = value
           /\ errs[1].Supported = allowed
    /\ (value \in Elements(allowed)) => errs = <<>>

C25_EnumFieldsChecked ==
    Done =>
        \A k \in 1..NumAuthorizers :
            ReachesWebhookValidation(k) =>
                /\ EnumChecked(ErrsOn(k, "subjectAccessReviewVersion"),
                               WebhookOf(k).SubjectAccessReviewVersion, <<"v1", "v1beta1">>)
                /\ EnumChecked(ErrsOn(k, "failurePolicy"),
                               WebhookOf(k).FailurePolicy, <<"NoOpinion", "Deny">>)

C25_Witness ==
    /\ Done
    /\ \E k \in 1..NumAuthorizers :
          /\ ReachesWebhookValidation(k)
          /\ WebhookOf(k).SubjectAccessReviewVersion = ""
          /\ WebhookOf(k).FailurePolicy = "AlwaysAllow"
          /\ Len(ErrsOn(k, "subjectAccessReviewVersion")) = 1
          /\ Len(ErrsOn(k, "failurePolicy")) = 1
          /\ ErrsOn(k, "failurePolicy")[1].BadValue = "AlwaysAllow"

(***************************************************************************)
(* C21.  For every ordered mode list the legacy builder returns a chain    *)
(* with one entry per mode, in the same order: a Webhook mode becomes a    *)
(* Webhook entry named "default" with timeout 30s, failurePolicy           *)
(* NoOpinion, the TTLs and the review version of the flags and             *)
(* connectionInfo {KubeConfigFile, the webhook config file of the flags};  *)
(* any other mode becomes an entry of that type without a webhook.  And    *)
(* the chain built from [AlwaysAllow, Webhook] with a valid kube-config    *)
(* path and the default TTLs validates with zero errors.                   *)
(***************************************************************************)
BuiltFrom(chain, opts) ==
    /\ Len(chain.Authorizers) = Len(opts.Modes)
    /\ \A k \in DOMAIN opts.Modes :
          IF opts.Modes[k] = "Webhook"
          THEN /\ chain.Authorizers[k].Type = "Webhook"
               /\ chain.Authorizers[k].Webhook # <<>>
               /\ LET w == chain.Authorizers[k].Webhook[1]
                  IN  /\ w.Name = "default"
                      /\ w.Timeout = 30
                      /\ w.FailurePolicy = "NoOpinion"
                      /\ w.AuthorizedTTL = opts.WebhookCacheAuthorizedTTL
                      /\ w.UnauthorizedTTL = opts.WebhookCacheUnauthorizedTTL
                      /\ w.SubjectAccessReviewVersion = opts.WebhookVersion
                      /\ w.ConnectionInfo.Type = "KubeConfigFile"
                      /\ w.ConnectionInfo.KubeConfigFile = <<opts.WebhookConfigFile>>
                      /\ w.MatchConditions = <<>>
          ELSE /\ chain.Authorizers[k].Type = opts.Modes[k]
               /\ chain.Authorizers[k].Webhook = <<>>
RoundTripOptions ==
    /\ o.Modes = <<"AlwaysAllow", "Webhook">>
    /\ o.WebhookConfigFile = <<"/", "tmp", "/", "kubeconfig">>
    /\ o.WebhookCacheAuthorizedTTL = 300
    /\ o.WebhookCacheUnauthorizedTTL = 30
ValidatingLegacy == ~gate /\ opc = "Validate"

C21_LegacyBuilder ==
    /\ (~gate /\ ConfigReturned) =>
           BuiltFrom(config[1].AuthorizationConfiguration[1], o)
    /\ ValidatingLegacy => BuiltFrom(c, o)
    /\ (ValidatingLegacy /\ Done /\ RoundTripOptions) => allErrs = <<>>

C21_Witness ==
    /\ ValidatingLegacy
    /\ Done
    /\ RoundTripOptions
    /\ o.WebhookVersion = "v1beta1"
    /\ ConfigReturned
    /\ config[1].AuthorizationConfiguration[1] = c
    /\ Len(c.Authorizers) = 2
    /\ allErrs = <<>>

(***************************************************************************)
(* C22.  With the gate enabled and an empty configuration file path, both  *)
(* Validate and ToAuthorizationConfig report a configuration error and the *)
(* file loader is never called.  With the gate disabled the file loader is *)
(* never called either, and a non-empty configuration file path makes      *)
(* Validate report an error.                                               *)
(***************************************************************************)
ReturnedErrs == Elements(allErrors[1])

C22_NoLoadWithoutFile ==
    /\ (gate /\ o.AuthorizationConfigurationFile = "") =>
           /\ loads = 0
           /\ ValidateReturned =>
                  "StructuredAuthorizationConfig is enabled but --authorization-config is not set"
                      \in ReturnedErrs
           /\ (config # <<>>) =>
                  /\ config[1].err # ""
                  /\ config[1].AuthorizationConfiguration = <<>>
    /\ ~gate =>
           /\ loads = 0
           /\ (ValidateReturned /\ o.AuthorizationConfigurationFile # "") =>
                  "StructuredAuthorizationConfig is disabled but --authorization-config is set"
                      \in ReturnedErrs

C22_Witness ==
    /\ gate
    /\ o.AuthorizationConfigurationFile = ""
    /\ ValidateReturned
    /\ config # <<>>
    /\ config[1].err # ""
    /\ loads = 0

(***************************************************************************)
(* C26.  On the legacy path Validate returns an error whenever a mode and  *)
(* its file flag disagree: ABAC listed with an empty policy file, a policy *)
(* file set without mode ABAC, a webhook config file set without mode      *)
(* Webhook.  It returns no such error when only AlwaysAllow and AlwaysDeny *)
(* are used with neither file, nor, as to the policy file, when ABAC is    *)
(* used with a policy file.                                                *)
(***************************************************************************)
ModesListed == {o.Modes[k] : k \in DOMAIN o.Modes}
PolicyFileMissing == "authorization-mode ABAC's authorization policy file not passed"
PolicyFileUnused == "cannot specify --authorization-policy-file without mode ABAC"
WebhookConfigFileUnused ==
    "cannot specify --authorization-webhook-config-file without mode Webhook"
LegacyValidateReturned == ValidateReturned /\ ~gate

C26_ModeAndFileAgree ==
    LegacyValidateReturned =>
        /\ ("ABAC" \in ModesListed /\ o.PolicyFile = "") => PolicyFileMissing \in ReturnedErrs
        /\ ("ABAC" \notin ModesListed /\ o.PolicyFile # "") => PolicyFileUnused \in ReturnedErrs
        /\ ("Webhook" \notin ModesListed /\ o.WebhookConfigFile # <<>>) =>
               WebhookConfigFileUnused \in ReturnedErrs
        /\ ( /\ ModesListed \subseteq {"AlwaysAllow", "AlwaysDeny"}
             /\ o.PolicyFile = ""
             /\ o.WebhookConfigFile = <<>> ) =>
               ReturnedErrs \cap {PolicyFileMissing, PolicyFileUnused, WebhookConfigFileUnused} = {}
        /\ ("ABAC" \in ModesListed /\ o.PolicyFile # "") =>
               ReturnedErrs \cap {PolicyFileMissing, PolicyFileUnused} = {}

C26_Witness ==
    /\ LegacyValidateReturned
    /\ o.Modes = <<"AlwaysAllow", "ABAC">>
    /\ o.PolicyFile = ""
    /\ o.WebhookConfigFile # <<>>
    /\ PolicyFileMissing \in ReturnedErrs
    /\ WebhookConfigFileUnused \in ReturnedErrs

(***************************************************************************)
(* C27.  Whenever Validate returns, it returns the error "number of        *)
(* webhook retry attempts must be greater than 0, but is: <steps>" if a    *)
(* retry backoff is configured with steps <= 0, and no such error if the   *)
(* backoff is absent or has steps > 0.                                     *)
(***************************************************************************)
RetryStepsErrs ==
    {"number of webhook retry attempts must be greater than 0, but is: " \o ToString(n) :
        n \in -1..5}

C27_RetryStepsPositive ==
    ValidateReturned =>
        IF o.WebhookRetryBackoff # <<>> /\ o.WebhookRetryBackoff[1].Steps <= 0
        THEN ReturnedErrs \cap RetryStepsErrs =
                 {"number of webhook retry attempts must be greater than 0, but is: "
                  \o ToString(o.WebhookRetryBackoff[1].Steps)}
        ELSE ReturnedErrs \cap RetryStepsErrs = {}

C27_Witness ==
    /\ ValidateReturned
    /\ o.WebhookRetryBackoff = <<[Steps |-> 0]>>
    /\ o.Modes = <<"Webhook">>
    /\ "number of webhook retry attempts must be greater than 0, but is: 0" \in ReturnedErrs

(***************************************************************************)
(* C28.  With the gate enabled and a configuration file that fails to      *)
(* load, Validate reports the load failure and does not run the chain      *)
(* validator on the missing configuration: the call neither crashes nor    *)
(* enters the validator.                                                   *)
(***************************************************************************)
LoadFails ==
    /\ gate
    /\ o.AuthorizationConfigurationFile # ""
    /\ LoadFromFile(o.AuthorizationConfigurationFile).err # ""

C28_LoadFailureReported ==
    LoadFails =>
        /\ opc \notin {"panic", "Validate"}
        /\ ValidateReturned =>
               \E n \in DOMAIN allErrors[1] :
                   allErrors[1][n] = "failed to load config from file "
                                     \o o.AuthorizationConfigurationFile \o ": "
                                     \o LoadFromFile(o.AuthorizationConfigurationFile).err

(***************************************************************************)
(* C29.  With the gate enabled and a configuration file set, the legacy    *)
(* flags are disregarded: the set of errors Validate returns is the one it *)
(* returns under any other legacy mode list and legacy webhook config      *)
(* file, the configuration file and the policy file being the same.        *)
(***************************************************************************)
FileValidateReturned ==
    ValidateReturned /\ gate /\ o.AuthorizationConfigurationFile # ""
\* What Validate returns on the file path under another mode list and webhook
\* config file: the errors of the chain in the file, then the later tests.
ReturnedUnder(modes, webhookConfigFile) ==
    Elements(ToAggregate(allErrs))
    \cup Elements(ModeFileErrs([o EXCEPT !.Modes = modes,
                                         !.WebhookConfigFile = webhookConfigFile]))

C29_LegacyFlagsDisregarded ==
    FileValidateReturned =>
        \A modes \in ModeLists, webhookConfigFile \in WebhookConfigFiles :
            ReturnedErrs = ReturnedUnder(modes, webhookConfigFile)

(***************************************************************************)
(* C30.  On the legacy path a mode list in which Webhook appears two or    *)
(* more times is never accepted: Validate returns at least one Duplicate   *)
(* error on the second Webhook entry, on its webhook name "default" as     *)
(* Webhook is a repeatable type there.                                     *)
(***************************************************************************)
WebhookModesAt == {k \in DOMAIN o.Modes : o.Modes[k] = "Webhook"}
SecondWebhookMode ==
    CHOOSE k \in WebhookModesAt : Cardinality({j \in WebhookModesAt : j < k}) = 1

C30_RepeatedWebhookModeRejected ==
    (LegacyValidateReturned /\ Cardinality(WebhookModesAt) >= 2) =>
        /\ allErrors[1] # <<>>
        /\ ("authorizers[" \o ToString(SecondWebhookMode - 1) \o "].name"
            \o ": Duplicate value: \"default\"") \in ReturnedErrs

C30_Witness ==
    /\ LegacyValidateReturned
    /\ o.Modes = <<"Webhook", "Webhook">>
    /\ o.WebhookConfigFile = <<"/", "tmp", "/", "kubeconfig">>
    /\ allErrors[1] = <<"authorizers[1].name: Duplicate value: \"default\"">>

====
